---- MODULE Spec2Model ----
(***************************************************************************)
(* gpx-analyzer (src/src/main.rs): per-file streaming analysis of GPX      *)
(* track logs (analyze) run on a rayon worker pool, followed by the        *)
(* flatten / sort / partition / report stage of main.                      *)
(*                                                                         *)
(* A corpus is a sequence of files.  A file is a sequence of top-level     *)
(* items of the track log; the XML reader turns it into the event stream   *)
(* analyze consumes (Events).  The distance analyze computes for a track   *)
(* point (main.rs:129-135, geo crate) is carried by the item as datum      *)
(* dist; the text of the time element of item i is the number i, so every  *)
(* time text of a file is distinct and non-empty (0 stands for "").        *)
(* Option<T> is a sequence of length at most one; Vec<T> is a sequence.    *)
(*                                                                         *)
(* SpecGeo derives that distance from the positions of the track points    *)
(* of one file (haversine_distance for the first point, euclidean_distance *)
(* to the segment from the previous point for the others).  SpecFaults     *)
(* adds the faults the program does not absorb: a path that cannot be      *)
(* opened, a time text that cannot be decoded, a coordinate that parses    *)
(* to NaN.                                                                 *)
(***************************************************************************)
EXTENDS Integers, Sequences, FiniteSets, TLC

\* ------------------------------------------------------------------ bounds
MaxItems == 3
NFiles == 2
Threads == 2

\* -------------------------------------------------------- program inputs
\* opt.distance, the threshold in meters
distance == 100
\* std::usize::MAX, narrowed to the largest integer TLC represents; it is
\* only ever used as an index no vector reaches
USIZE_MAX == 2147483647

\* f64::NAN, what "nan".parse::<f64>() returns; every comparison with it is
\* false.  The infinities are not told apart from it: the distance of a
\* point with an infinite coordinate, and of the point after it, is NaN too.
NaN == -1
\* a text unescape_and_decode returns Err for (an unknown entity reference,
\* bytes that are not UTF-8)
Undecodable == -1

Near == {50, 100}
Far == {150, 500}
Dists == Near \cup Far

\* ------------------------------------------------------------ track logs
\* kind "pt":    <trkpt lon=".." lat=".."> [<time>i</time>] </trkpt>
\* kind "bad":   the same with a lon/lat attribute that does not parse
\* kind "time":  <time>i</time> outside any track point (metadata)
\* kind "err":   a malformed token (read_event returns Err)
\* kind "empty": a self-closing element (Event::Empty)
\* kind "nan":   a track point with lon="nan" (or "inf"): the attribute parses
\* kind "ptg":   a track point whose time text cannot be decoded
Item(k, d, t) == [kind |-> k, dist |-> d, time |-> t]

RichItems ==
  {Item("pt", d, t) : d \in Dists, t \in BOOLEAN}
    \cup {Item("bad", 0, TRUE), Item("time", 0, TRUE),
          Item("err", 0, FALSE), Item("empty", 0, FALSE)}

DocsOver(items, n) == UNION {[1..k -> items] : k \in 0..n}

Pt(d, t) == Item("pt", d, t)

\* the files of the multi-file corpora
CorpusDocs ==
  { <<>>,
    <<Pt(50, TRUE), Pt(150, FALSE), Pt(100, FALSE)>>,
    <<Pt(150, TRUE)>>,
    <<Pt(50, FALSE)>>,
    <<Item("err", 0, FALSE), Pt(500, FALSE), Item("bad", 0, TRUE)>>,
    <<Item("empty", 0, FALSE), Pt(100, TRUE)>> }

\* the file of the end-to-end scenario: distances [50, 150, 80, 30, 500]
ScenarioDists == <<50, 150, 80, 30, 500>>
ScenarioNoise ==
  { <<>>, <<Item("err", 0, FALSE)>>, <<Item("empty", 0, FALSE)>>,
    <<Item("bad", 0, TRUE)>>, <<Item("time", 0, TRUE)>> }
ScenarioDocs ==
  { n \o [i \in 1..Len(ScenarioDists) |-> Pt(ScenarioDists[i], ts[i])] :
      n \in ScenarioNoise, ts \in [1..Len(ScenarioDists) -> BOOLEAN] }

\* ------------------------------------------------------------ the reader
Ev(ty, nm, okv, d, tx) ==
  [type |-> ty, name |-> nm, ok |-> okv, dist |-> d, text |-> tx]

TimeElem(i) ==
  << Ev("Start", "time", TRUE, 0, 0), Ev("Text", "", TRUE, 0, i),
     Ev("End", "time", TRUE, 0, 0) >>

ItemEvents(it, i) ==
  CASE it.kind = "pt" ->
         <<Ev("Start", "trkpt", TRUE, it.dist, 0)>>
           \o (IF it.time THEN TimeElem(i) ELSE <<>>)
           \o <<Ev("End", "trkpt", TRUE, 0, 0)>>
    [] it.kind = "bad" ->
         <<Ev("Start", "trkpt", FALSE, 0, 0)>>
           \o (IF it.time THEN TimeElem(i) ELSE <<>>)
           \o <<Ev("End", "trkpt", TRUE, 0, 0)>>
    [] it.kind = "time" -> TimeElem(i)
    [] it.kind = "nan" ->
         <<Ev("Start", "trkpt", TRUE, NaN, 0)>>
           \o (IF it.time THEN TimeElem(i) ELSE <<>>)
           \o <<Ev("End", "trkpt", TRUE, 0, 0)>>
    [] it.kind = "ptg" ->
         <<Ev("Start", "trkpt", TRUE, it.dist, 0)>>
           \o TimeElem(Undecodable)
           \o <<Ev("End", "trkpt", TRUE, 0, 0)>>
    [] it.kind = "err" -> <<Ev("Err", "", TRUE, 0, 0)>>
    [] OTHER -> <<Ev("Empty", "trkpt", TRUE, 0, 0)>>

RECURSIVE EventsFrom(_, _)
EventsFrom(doc, i) ==
  IF i > Len(doc) THEN <<Ev("Eof", "", TRUE, 0, 0)>>
  ELSE ItemEvents(doc[i], i) \o EventsFrom(doc, i + 1)

Events(doc) == EventsFrom(doc, 1)

\* ------------------------------------------------------------------ state
VARIABLES
  files,               \* analyze_db: the corpus
  reader,              \* per file: the event stream of quick_xml::Reader
  pc,                  \* per file: "queued", "running", "done" or "panicked"
  pos,                 \* per file: events read so far
  results,             \* analyze: closed zones
  new_results,         \* analyze: the open zone
  nearest,             \* analyze: Option<GpxResult>
  time_update,         \* analyze
  in_time,             \* analyze
  searching_time_for,  \* analyze
  last_point,          \* analyze: Option of the previous point (its event index)
  analysis_results,    \* main: the vector analyze returned, per file
  phase,               \* main: "analyze", "sorted", "done" or "aborted"
  main_results,        \* main: results (flattened and sorted)
  filtered_results,    \* main
  report,              \* what main prints
  run,                 \* number of the invocation of the program
  prev_report,         \* the report of the previous invocation
  readable,            \* per file: Reader::from_file can open the path
  geo_points,          \* the positions of the track points of one file
  geo_pos,             \* how many of them the distance was computed for
  geo_last_point,      \* last_point, as a position
  geo_dist             \* dist of the point processed last, in thousandths

avars == <<pc, pos, results, new_results, nearest, time_update, in_time,
           searching_time_for, last_point, analysis_results>>
mvars == <<phase, main_results, filtered_results, report>>
gvars == <<geo_points, geo_pos, geo_last_point, geo_dist>>
vars == <<files, reader, avars, mvars, run, prev_report, readable, gvars>>

GpxResult(d, p, t) == [distance |-> d, path |-> p, time |-> t]

NoReport == [shape |-> "pending", within |-> <<>>, outside |-> <<>>, closest |-> <<>>]

\* ------------------------------------------------------------ pure helpers
\* Vec::sort_by(|a, b| a.distance.partial_cmp(&b.distance).unwrap()): a
\* stable sort, ascending by distance
RECURSIVE InsertByDistance(_, _)
InsertByDistance(r, s) ==
  IF s = <<>> THEN <<r>>
  ELSE IF r.distance < Head(s).distance THEN <<r>> \o s
  ELSE <<Head(s)>> \o InsertByDistance(r, Tail(s))

\* the sort left out
NoSort(s) == s

RECURSIVE SortByDistance(_)
SortByDistance(s) ==
  IF s = <<>> THEN <<>>
  ELSE InsertByDistance(s[Len(s)], SortByDistance(SubSeq(s, 1, Len(s) - 1)))

\* the comparisons of f64
Gt(a, b) == a # NaN /\ b # NaN /\ a > b

Le(a, b) == a # NaN /\ b # NaN /\ a <= b

\* the comparison with the miss held so far left out
IsNewNearestAlways(n, dist) == dist > distance

\* main.rs:137-138
IsNewNearest(n, dist) ==
  (n = <<>> \/ Gt(n[1].distance, dist)) /\ Gt(dist, distance)

\* the open zone never closed by a point
ClosesZoneNever(nr, dist) == FALSE

\* main.rs:148
ClosesZone(nr, dist) == Gt(dist, distance) /\ nr # <<>>

\* the comparison made strict
InZoneStrict(dist) == dist < distance

\* main.rs:156
InZone(dist) == Le(dist, distance)

\* the first slot of the zone instead of the last
TimeSlotFirst(nr) == 0

\* main.rs:162, the slot of the point just pushed
TimeSlot(nr) == Len(nr) - 1

\* Vec::get_mut(i): 0-based, None past the end
HasSlot(nr, i) == i < Len(nr)

\* the miss pushed whether or not the file has a zone
EofOutputWithMiss(res, nr, n) ==
  LET out2 == IF res # <<>> THEN n \o res ELSE n
  IN IF nr # <<>> THEN Append(out2, Head(SortByDistance(nr))) ELSE out2

\* main.rs:190-217, the vector analyze returns at end of stream
EofOutput(res, nr, n) ==
  LET capacity == IF n # <<>> THEN Len(res) + (IF Len(nr) < 1 THEN Len(nr) ELSE 1) + 1
                  ELSE Len(res) + (IF Len(nr) < 1 THEN Len(nr) ELSE 1)
      out1 == IF res = <<>> /\ nr = <<>> THEN n ELSE <<>>
      out2 == IF res # <<>> THEN out1 \o res ELSE out1
      out3 == IF nr # <<>> THEN Append(out2, Head(SortByDistance(nr))) ELSE out2
  IN IF capacity = 0 THEN <<>> ELSE out3

\* ------------------------------------------------------------------- Init
FileIds == DOMAIN files

InitState ==
  /\ reader = [f \in FileIds |-> Events(files[f])]
  /\ pc = [f \in FileIds |-> "queued"]
  /\ pos = [f \in FileIds |-> 0]
  /\ results = [f \in FileIds |-> <<>>]
  /\ new_results = [f \in FileIds |-> <<>>]
  /\ nearest = [f \in FileIds |-> <<>>]
  /\ time_update = [f \in FileIds |-> FALSE]
  /\ in_time = [f \in FileIds |-> FALSE]
  /\ searching_time_for = [f \in FileIds |-> USIZE_MAX]
  /\ last_point = [f \in FileIds |-> <<>>]
  /\ analysis_results = [f \in FileIds |-> <<>>]
  /\ phase = "analyze"
  /\ main_results = <<>>
  /\ filtered_results = <<>>
  /\ report = NoReport
  /\ run = 1
  /\ prev_report = NoReport

\* every path of the corpus can be opened
AllReadable == readable = [f \in FileIds |-> TRUE]

\* the positions of the track points are not looked at
GeoIdle ==
  /\ geo_points = <<>>
  /\ geo_pos = 0
  /\ geo_last_point = <<>>
  /\ geo_dist = <<>>

\* one file of up to MaxItems arbitrary items, or NFiles files of CorpusDocs
Init ==
  /\ files \in {<<d>> : d \in DocsOver(RichItems, MaxItems)}
                 \cup [1..NFiles -> CorpusDocs]
  /\ AllReadable
  /\ GeoIdle
  /\ InitState

\* ---------------------------------------------------------------- analyze
Cur(f) == reader[f][pos[f] + 1]

Reading(f, ty) == pc[f] = "running" /\ Cur(f).type = ty

\* the previous point counted even if its coordinates are not numbers
PreviousIsNaN(f) ==
  last_point[f] # <<>> /\ reader[f][last_point[f][1]].dist = NaN

\* main.rs:129-135: the arithmetic of the geo crate yields NaN as soon as a
\* coordinate of the point or of the previous point is NaN
ComputeDist(f, e) ==
  IF e.dist = NaN \/ PreviousIsNaN(f) THEN NaN ELSE e.dist

\* main.rs:372-374, 30: a free worker of the pool starts analyze on a file
\* and the file opens
Dispatch(f) ==
  /\ phase = "analyze"
  /\ pc[f] = "queued"
  /\ Cardinality({g \in FileIds : pc[g] = "running"}) < Threads
  /\ readable[f]
  /\ pc' = [pc EXCEPT ![f] = "running"]
  /\ UNCHANGED <<files, reader, readable, gvars, pos, results, new_results, nearest, time_update, in_time,
                 searching_time_for, last_point, analysis_results, mvars, run,
                 prev_report>>

\* main.rs:30: Reader::from_file(&path).unwrap() on a path that cannot be
\* opened; the worker panics
OpenFails(f) ==
  /\ phase = "analyze"
  /\ pc[f] = "queued"
  /\ Cardinality({g \in FileIds : pc[g] = "running"}) < Threads
  /\ ~readable[f]
  /\ pc' = [pc EXCEPT ![f] = "panicked"]
  /\ UNCHANGED <<files, reader, readable, gvars, pos, results, new_results, nearest,
                 time_update, in_time, searching_time_for, last_point,
                 analysis_results, mvars, run, prev_report>>

\* main.rs:44-168
StartEvent(f) ==
  /\ Reading(f, "Start")
  /\ pos' = [pos EXCEPT ![f] = @ + 1]
  /\ LET e == Cur(f) IN
     IF e.name = "trkpt" THEN
       IF ~e.ok THEN
         \* continue: the point is skipped
         UNCHANGED <<results, new_results, nearest, time_update, in_time,
                     searching_time_for, last_point>>
       ELSE
         LET dist == ComputeDist(f, e)
             upd == IsNewNearest(nearest[f], dist)
             cls == ClosesZone(new_results[f], dist)
             nr1 == IF cls THEN <<>> ELSE new_results[f]
             nr2 == IF InZone(dist) THEN Append(nr1, GpxResult(dist, f, <<>>)) ELSE nr1
         IN /\ nearest' = [nearest EXCEPT ![f] =
                             IF upd THEN <<GpxResult(dist, f, <<>>)>> ELSE @]
            /\ time_update' = [time_update EXCEPT ![f] = IF upd THEN TRUE ELSE @]
            /\ results' = [results EXCEPT ![f] =
                             IF cls THEN Append(@, Head(SortByDistance(new_results[f])))
                             ELSE @]
            /\ new_results' = [new_results EXCEPT ![f] = nr2]
            /\ searching_time_for' = [searching_time_for EXCEPT ![f] =
                             IF InZone(dist) THEN TimeSlot(nr2) ELSE @]
            /\ last_point' = [last_point EXCEPT ![f] = <<pos[f] + 1>>]
            /\ UNCHANGED in_time
     ELSE IF e.name = "time" THEN
       /\ in_time' = [in_time EXCEPT ![f] = TRUE]
       /\ UNCHANGED <<results, new_results, nearest, time_update,
                      searching_time_for, last_point>>
     ELSE
       UNCHANGED <<results, new_results, nearest, time_update, in_time,
                   searching_time_for, last_point>>
  /\ UNCHANGED <<files, reader, readable, gvars, pc, analysis_results, mvars, run, prev_report>>

\* main.rs:169-176
EndEvent(f) ==
  /\ Reading(f, "End")
  /\ pos' = [pos EXCEPT ![f] = @ + 1]
  /\ searching_time_for' = [searching_time_for EXCEPT ![f] =
                              IF Cur(f).name = "trkpt" THEN USIZE_MAX ELSE @]
  /\ in_time' = [in_time EXCEPT ![f] = IF Cur(f).name = "time" THEN FALSE ELSE @]
  /\ UNCHANGED <<files, reader, readable, gvars, pc, results, new_results, nearest, time_update, last_point,
                 analysis_results, mvars, run, prev_report>>

\* main.rs:177-189
TextEvent(f) ==
  /\ Reading(f, "Text")
  /\ ~(in_time[f] /\ Cur(f).text = Undecodable)
  /\ pos' = [pos EXCEPT ![f] = @ + 1]
  /\ LET time == Cur(f).text
         slot == searching_time_for[f]
         toZone == in_time[f] /\ time # 0 /\ HasSlot(new_results[f], slot)
         toNearest == in_time[f] /\ time # 0 /\ ~HasSlot(new_results[f], slot)
                        /\ time_update[f]
     IN /\ new_results' = [new_results EXCEPT ![f] =
                             IF toZone THEN [@ EXCEPT ![slot + 1].time = <<time>>] ELSE @]
        /\ nearest' = [nearest EXCEPT ![f] =
                             IF toNearest THEN <<[@[1] EXCEPT !.time = <<time>>]>> ELSE @]
        /\ time_update' = [time_update EXCEPT ![f] = IF in_time[f] THEN FALSE ELSE @]
  /\ UNCHANGED <<files, reader, readable, gvars, pc, results, in_time, searching_time_for, last_point,
                 analysis_results, mvars, run, prev_report>>

\* main.rs:178-179: e.unescape_and_decode(&reader).unwrap() on the text of a
\* time element that cannot be decoded; the worker panics
TextPanics(f) ==
  /\ Reading(f, "Text")
  /\ in_time[f] /\ Cur(f).text = Undecodable
  /\ pc' = [pc EXCEPT ![f] = "panicked"]
  /\ UNCHANGED <<files, reader, readable, gvars, pos, results, new_results, nearest,
                 time_update, in_time, searching_time_for, last_point,
                 analysis_results, mvars, run, prev_report>>

\* main.rs:190-218
EofEvent(f) ==
  /\ Reading(f, "Eof")
  /\ analysis_results' = [analysis_results EXCEPT ![f] =
                            EofOutput(results[f], new_results[f], nearest[f])]
  /\ pc' = [pc EXCEPT ![f] = "done"]
  /\ UNCHANGED <<files, reader, readable, gvars, pos, results, new_results, nearest, time_update, in_time,
                 searching_time_for, last_point, mvars, run, prev_report>>

\* the malformed token taken for the end of the stream
ErrEventReturns(f) ==
  /\ Reading(f, "Err")
  /\ analysis_results' = [analysis_results EXCEPT ![f] =
                            EofOutput(results[f], new_results[f], nearest[f])]
  /\ pc' = [pc EXCEPT ![f] = "done"]
  /\ UNCHANGED <<files, reader, readable, gvars, pos, results, new_results, nearest,
                 time_update, in_time, searching_time_for, last_point, mvars, run,
                 prev_report>>

\* main.rs:219-224: the fault is printed, the loop goes on
ErrEvent(f) ==
  /\ Reading(f, "Err")
  /\ pos' = [pos EXCEPT ![f] = @ + 1]
  /\ UNCHANGED <<files, reader, readable, gvars, pc, results, new_results, nearest, time_update, in_time,
                 searching_time_for, last_point, analysis_results, mvars, run,
                 prev_report>>

\* main.rs:225
OtherEvent(f) ==
  /\ Reading(f, "Empty")
  /\ pos' = [pos EXCEPT ![f] = @ + 1]
  /\ UNCHANGED <<files, reader, readable, gvars, pc, results, new_results, nearest, time_update, in_time,
                 searching_time_for, last_point, analysis_results, mvars, run,
                 prev_report>>

\* ------------------------------------------------------------------- main
\* the merge started as soon as one analyze call has returned
JoinFirst == \E f \in FileIds : pc[f] = "done"

\* main.rs:372-375: collect() returns when every analyze call has returned
JoinBarrier == \A f \in FileIds : pc[f] = "done"

\* main.rs:376-386: the per-file vectors, appended in the order of analyze_db
RECURSIVE FlattenFrom(_, _)
FlattenFrom(ar, f) ==
  IF f > Len(ar) THEN <<>>
  ELSE (IF ar[f] # <<>> THEN ar[f] ELSE <<>>) \o FlattenFrom(ar, f + 1)

\* each vector assigned instead of appended: the last one survives
FlattenLast(ar) == IF ar = <<>> THEN <<>> ELSE ar[Len(ar)]

Flatten(ar) == FlattenFrom(ar, 1)

\* the comparison made strict
StrictlyWithinDistance(r) == r.distance < distance

\* main.rs:392-395: par_iter().filter().collect() keeps the order
WithinDistance(r) == r.distance <= distance

Filter(rs) == SelectSeq(rs, WithinDistance)

\* the last result printed as the closest instead of the first
ReportOfLast(rs, filtered) ==
  IF filtered # <<>> THEN
    [shape |-> "within", within |-> filtered,
     outside |-> IF Len(filtered) < Len(rs) THEN <<rs[Len(filtered) + 1]>> ELSE <<>>,
     closest |-> <<>>]
  ELSE IF rs # <<>> THEN
    [shape |-> "closest", within |-> <<>>, outside |-> <<>>, closest |-> <<rs[Len(rs)]>>]
  ELSE
    [shape |-> "none", within |-> <<>>, outside |-> <<>>, closest |-> <<>>]

\* main.rs:397-427: what is printed
ReportOf(rs, filtered) ==
  IF filtered # <<>> THEN
    LET out_range_index == Len(filtered) IN
    [shape |-> "within", within |-> filtered,
     outside |-> IF out_range_index < Len(rs) THEN <<rs[out_range_index + 1]>> ELSE <<>>,
     closest |-> <<>>]
  ELSE IF rs # <<>> THEN
    [shape |-> "closest", within |-> <<>>, outside |-> <<>>, closest |-> <<Head(rs)>>]
  ELSE
    [shape |-> "none", within |-> <<>>, outside |-> <<>>, closest |-> <<>>]

\* main.rs:372-389: join, flatten, sort
Merge ==
  /\ phase = "analyze"
  /\ JoinBarrier
  /\ main_results' = SortByDistance(Flatten(analysis_results))
  /\ phase' = "sorted"
  /\ UNCHANGED <<files, reader, readable, gvars, avars, filtered_results, report, run, prev_report>>

\* main.rs:372-375: the panic of a worker is resumed in main once no
\* analyze call is running; the process ends, nothing is printed
Abort ==
  /\ phase = "analyze"
  /\ \E f \in FileIds : pc[f] = "panicked"
  /\ \A f \in FileIds : pc[f] # "running"
  /\ phase' = "aborted"
  /\ UNCHANGED <<files, reader, readable, gvars, avars, main_results,
                 filtered_results, report, run, prev_report>>

\* main.rs:391-427: partition and print
Report ==
  /\ phase = "sorted"
  /\ filtered_results' = Filter(main_results)
  /\ report' = ReportOf(main_results, Filter(main_results))
  /\ phase' = "done"
  /\ UNCHANGED <<files, reader, readable, gvars, avars, main_results, run, prev_report>>

\* main.rs:300: the program is started again on the same files with the same
\* arguments; nothing but the files survives the first process
Rerun ==
  /\ phase = "done"
  /\ run = 1
  /\ run' = 2
  /\ prev_report' = report
  /\ pc' = [f \in FileIds |-> "queued"]
  /\ pos' = [f \in FileIds |-> 0]
  /\ results' = [f \in FileIds |-> <<>>]
  /\ new_results' = [f \in FileIds |-> <<>>]
  /\ nearest' = [f \in FileIds |-> <<>>]
  /\ time_update' = [f \in FileIds |-> FALSE]
  /\ in_time' = [f \in FileIds |-> FALSE]
  /\ searching_time_for' = [f \in FileIds |-> USIZE_MAX]
  /\ last_point' = [f \in FileIds |-> <<>>]
  /\ analysis_results' = [f \in FileIds |-> <<>>]
  /\ phase' = "analyze"
  /\ main_results' = <<>>
  /\ filtered_results' = <<>>
  /\ report' = NoReport
  /\ UNCHANGED <<files, reader, readable, gvars>>

\* --------------------------------------------------------- specifications
Next ==
  \/ \E f \in FileIds : Dispatch(f)
  \/ \E f \in FileIds : StartEvent(f)
  \/ \E f \in FileIds : EndEvent(f)
  \/ \E f \in FileIds : TextEvent(f)
  \/ \E f \in FileIds : EofEvent(f)
  \/ \E f \in FileIds : ErrEvent(f)
  \/ \E f \in FileIds : OtherEvent(f)
  \/ Merge
  \/ Report

Spec == Init /\ [][Next]_vars

\* the end-to-end scenario: one file with distances [50, 150, 80, 30, 500]
\* and one empty file
InitScenario ==
  /\ files \in {<<d, <<>> >> : d \in ScenarioDocs}
  /\ AllReadable
  /\ GeoIdle
  /\ InitState

SpecScenario == InitScenario /\ [][Next]_vars

\* two invocations on the same corpus
InitRerun ==
  /\ files \in [1..NFiles -> CorpusDocs]
  /\ AllReadable
  /\ GeoIdle
  /\ InitState

NextRerun == Next \/ Rerun

SpecRerun == InitRerun /\ [][NextRerun]_vars

\* files with faults: track points with lon="nan", time texts that cannot be
\* decoded, paths that cannot be opened
FaultItems ==
  { Pt(50, FALSE), Pt(50, TRUE), Pt(150, FALSE), Item("nan", 0, FALSE),
    Item("nan", 0, TRUE), Item("ptg", 50, TRUE), Item("bad", 0, TRUE),
    Item("err", 0, FALSE), Item("empty", 0, FALSE) }

InitFaults ==
  /\ files \in {<<d>> : d \in DocsOver(FaultItems, MaxItems)}
                 \cup [1..NFiles -> CorpusDocs]
  /\ readable \in [FileIds -> BOOLEAN]
  /\ GeoIdle
  /\ InitState

NextFaults ==
  \/ Next
  \/ \E f \in FileIds : OpenFails(f)
  \/ \E f \in FileIds : TextPanics(f)
  \/ Abort

SpecFaults == InitFaults /\ [][NextFaults]_vars

\* ---------------------------------------------------- reference notions
\* What the claims speak of, read off the file itself: the accepted track
\* points (kind "pt"), their zones and their misses.
Range(s) == {s[k] : k \in DOMAIN s}

Distances(rs) == [k \in DOMAIN rs |-> rs[k].distance]

MinOver(S) == CHOOSE m \in S : \A x \in S : m <= x

IsNear(r) == r.distance <= distance

Accepted(doc) == {i \in DOMAIN doc : doc[i].kind = "pt"}

Misses(doc) == {i \in Accepted(doc) : doc[i].dist > distance}

\* the zones of a file, each the sequence of the indices of its members
RECURSIVE RunsFrom(_, _, _)
RunsFrom(doc, i, cur) ==
  LET closed == IF cur = <<>> THEN <<>> ELSE <<cur>> IN
  IF i > Len(doc) THEN closed
  ELSE IF doc[i].kind # "pt" THEN RunsFrom(doc, i + 1, cur)
  ELSE IF doc[i].dist <= distance THEN RunsFrom(doc, i + 1, Append(cur, i))
  ELSE closed \o RunsFrom(doc, i + 1, <<>>)

Runs(doc) == RunsFrom(doc, 1, <<>>)

ZoneMin(doc, zone) == MinOver({doc[i].dist : i \in Range(zone)})

ZoneMins(doc) == [k \in DOMAIN Runs(doc) |-> ZoneMin(doc, Runs(doc)[k])]

MinMembers(doc, zone) == {i \in Range(zone) : doc[i].dist = ZoneMin(doc, zone)}

\* the timestamp of item i: its time text, if it has a time element
TimeOf(doc, i) == IF doc[i].time THEN <<i>> ELSE <<>>

Done(f) == pc[f] = "done"

\* C1: for every file analyze has returned from, the results within the
\* threshold are, in file order, exactly one per zone of the file, each with
\* the minimum distance of the members of its zone.
ZoneResults ==
  \A f \in FileIds :
    Done(f) =>
      Distances(SelectSeq(analysis_results[f], IsNear)) = ZoneMins(files[f])

\* a zone of two members, the second the nearer, closed by a far point
ZoneResultsWitness ==
  \E f \in FileIds :
    /\ Done(f)
    /\ files[f] = <<Pt(100, FALSE), Pt(50, FALSE), Pt(150, FALSE)>>
    /\ Distances(analysis_results[f]) = <<50>>

\* C2: a file with accepted points and no zone yields exactly one result,
\* the minimum distance of its points; a file with a zone yields no result
\* beyond the threshold; a file with no accepted point yields nothing.
NearestMissFallback ==
  \A f \in FileIds :
    Done(f) =>
      LET doc == files[f]
          out == analysis_results[f]
      IN /\ (Runs(doc) = <<>> /\ Accepted(doc) # {}) =>
               Distances(out) = <<MinOver({doc[i].dist : i \in Misses(doc)})>>
         /\ Runs(doc) # <<>> => \A k \in DOMAIN out : IsNear(out[k])
         /\ Accepted(doc) = {} => out = <<>>

NearestMissFallbackWitness ==
  \E f \in FileIds :
    /\ Done(f)
    /\ files[f] = <<Pt(500, FALSE), Pt(150, FALSE), Pt(500, FALSE)>>
    /\ Distances(analysis_results[f]) = <<150>>

\* ------------------------------------------------------------ the report
\* the index of the first merged result beyond the threshold, 0 if none
Boundary ==
  IF \E k \in DOMAIN main_results : ~IsNear(main_results[k])
  THEN MinOver({k \in DOMAIN main_results : ~IsNear(main_results[k])})
  ELSE 0

BeforeBoundary ==
  IF Boundary = 0 THEN main_results ELSE SubSeq(main_results, 1, Boundary - 1)

WithinPartition ==
  /\ report.within = BeforeBoundary
  /\ \A k \in DOMAIN main_results :
       IsNear(main_results[k]) <=> (Boundary = 0 \/ k < Boundary)

\* C3, as stated: the results before the first one beyond the threshold are
\* reported as within the threshold, in sorted order, and that first one
\* beyond it, if there is one, is reported as the nearest point outside the
\* distance; without one there is no such report.
PartitionAsStated ==
  phase = "done" =>
    /\ WithinPartition
    /\ report.outside = IF Boundary = 0 THEN <<>> ELSE <<main_results[Boundary]>>

\* C3, amended: as stated when some result is within the threshold; when
\* none is, the first result beyond it is reported as the closest point
\* found and nothing is reported as the nearest point outside the distance.
PartitionAmended ==
  phase = "done" =>
    /\ WithinPartition
    /\ report.outside =
         IF Boundary = 0 \/ BeforeBoundary = <<>> THEN <<>>
         ELSE <<main_results[Boundary]>>
    /\ (Boundary # 0 /\ BeforeBoundary = <<>>) =>
         report.closest = <<main_results[Boundary]>>

\* two results within the threshold, from the second file, followed by one
\* beyond it, from the first
PartitionWitness ==
  /\ phase = "done"
  /\ Len(report.within) = 2
  /\ Len(main_results) = 3
  /\ main_results[3].path = 1
  /\ report.outside = <<main_results[3]>>

\* C4: the merged sequence holds every result of every per-file vector
\* exactly once and ascends by distance; its distances are those of the
\* zones and fallback misses of the files, fixed by the corpus alone.
CountIn(x, s) == Cardinality({k \in DOMAIN s : s[k] = x})

RECURSIVE SumOver(_, _)
SumOver(ar, x) ==
  IF ar = <<>> THEN 0 ELSE CountIn(x, Head(ar)) + SumOver(Tail(ar), x)

FileDistances(doc) ==
  IF Runs(doc) # <<>> THEN ZoneMins(doc)
  ELSE IF Misses(doc) # {} THEN <<MinOver({doc[i].dist : i \in Misses(doc)})>>
  ELSE <<>>

MergeComplete ==
  phase # "analyze" =>
    /\ \A k \in 1..(Len(main_results) - 1) :
         main_results[k].distance <= main_results[k + 1].distance
    /\ \A f \in FileIds : \A r \in Range(analysis_results[f]) :
         CountIn(r, main_results) = SumOver(analysis_results, r)
    /\ \A r \in Range(main_results) :
         CountIn(r, main_results) = SumOver(analysis_results, r)
    /\ \A d \in Range(Distances(main_results)) :
         CountIn(d, Distances(main_results))
           = SumOver([f \in FileIds |-> FileDistances(files[f])], d)
    /\ \A f \in FileIds : \A d \in Range(FileDistances(files[f])) :
         d \in Range(Distances(main_results))

\* the second file's results are merged around those of the first
MergeCompleteWitness ==
  /\ phase = "done"
  /\ Len(files) = NFiles
  /\ Distances(analysis_results[1]) = <<150>>
  /\ Distances(analysis_results[2]) = <<50, 100>>
  /\ Distances(main_results) = <<50, 100, 150>>

\* C5, as stated: with threshold 100, a file with distances
\* [50, 150, 80, 30, 500] and an empty file, the report lists [30, 50] as
\* within the threshold and 150 as the nearest point outside it.
ScenarioAsStated ==
  phase = "done" =>
    /\ Distances(report.within) = <<30, 50>>
    /\ Distances(report.outside) = <<150>>

\* C5, amended: the report lists [30, 50] as within the threshold and
\* nothing as the nearest point outside it: the file has zones, so its
\* results are [50, 30] and the merged sequence is [30, 50].
ScenarioAmended ==
  phase = "done" =>
    /\ Distances(analysis_results[1]) = <<50, 30>>
    /\ analysis_results[2] = <<>>
    /\ Distances(main_results) = <<30, 50>>
    /\ Distances(report.within) = <<30, 50>>
    /\ report.outside = <<>>
    /\ report.closest = <<>>

ScenarioWitness ==
  /\ phase = "done"
  /\ distance = 100
  /\ [i \in 1..5 |-> files[1][Len(files[1]) - 5 + i].dist] = ScenarioDists
  /\ files[2] = <<>>
  /\ report.shape = "within"

\* ------------------------------------------------------------ timestamps
\* the track points a result of file doc can come from: for a result beyond
\* the threshold the first point at the minimum distance of the misses, for
\* a result within it the nearest members of the zones
Producers(doc, r) ==
  IF IsNear(r)
  THEN {i \in Accepted(doc) : \E k \in DOMAIN Runs(doc) :
          i \in MinMembers(doc, Runs(doc)[k]) /\ doc[i].dist = r.distance}
  ELSE {i \in Misses(doc) :
          /\ doc[i].dist = r.distance
          /\ \A j \in Misses(doc) : doc[j].dist = r.distance => i <= j}

\* C6: the timestamp of every result analyze returns is none or the text of
\* the time element of the very track point the result comes from.
OwnTimestamp ==
  \A f \in FileIds :
    Done(f) =>
      \A k \in DOMAIN analysis_results[f] :
        LET r == analysis_results[f][k] IN
        r.time # <<>> =>
          \E i \in Producers(files[f], r) : r.time = TimeOf(files[f], i)

\* C7: the k-th zone result of a file carries the timestamp of a member of
\* the k-th zone that has the zone's minimum distance: the text of its time
\* element, or none if it has no time element.
ZoneTimestamp ==
  \A f \in FileIds :
    Done(f) =>
      LET doc == files[f]
          zs == SelectSeq(analysis_results[f], IsNear)
      IN /\ Len(zs) = Len(Runs(doc))
         /\ \A k \in DOMAIN zs :
              \E i \in MinMembers(doc, Runs(doc)[k]) : zs[k].time = TimeOf(doc, i)

\* both members have a time element; the result has that of the nearer one
ZoneTimestampWitness ==
  \E f \in FileIds :
    /\ Done(f)
    /\ files[f] = <<Pt(100, TRUE), Pt(50, TRUE)>>
    /\ analysis_results[f] = <<GpxResult(50, f, <<2>>)>>

\* ------------------------------------------------------------- threshold
\* the distances of the track points analyze has accepted so far
RECURSIVE SeenDistsUpTo(_, _)
SeenDistsUpTo(evs, n) ==
  IF n = 0 THEN <<>>
  ELSE LET e == evs[n] IN
       IF e.type = "Start" /\ e.name = "trkpt" /\ e.ok
       THEN Append(SeenDistsUpTo(evs, n - 1), e.dist)
       ELSE SeenDistsUpTo(evs, n - 1)

SeenDists(f) == SeenDistsUpTo(reader[f], pos[f])

\* the longest suffix of distances none of which exceeds the threshold
RECURSIVE TrailingRun(_)
TrailingRun(ds) ==
  IF ds = <<>> \/ ds[Len(ds)] > distance THEN <<>>
  ELSE Append(TrailingRun(SubSeq(ds, 1, Len(ds) - 1)), ds[Len(ds)])

\* C8: a point at exactly the threshold joins the open zone, closes nothing
\* and is no miss; a point beyond it is no zone member: the open zone is the
\* run of points up to the threshold that ends the points accepted so far,
\* the miss is the minimum of those beyond it, and the report lists as
\* within the threshold exactly the results with distance <= threshold.
ThresholdInclusive ==
  /\ \A f \in FileIds :
       LET ds == SeenDists(f)
           far == {ds[k] : k \in {j \in DOMAIN ds : ds[j] > distance}}
       IN /\ Distances(new_results[f]) = TrailingRun(ds)
          /\ \A k \in DOMAIN results[f] : results[f][k].distance <= distance
          /\ Distances(nearest[f]) = IF far = {} THEN <<>> ELSE <<MinOver(far)>>
  /\ phase = "done" =>
       /\ filtered_results = report.within
       /\ \A r \in Range(main_results) :
            r.distance <= distance <=> r \in Range(filtered_results)

\* two points at the threshold have formed a zone, closed by a point beyond
\* it, and the zone's result is reported as within the threshold
ThresholdInclusiveWitness ==
  /\ phase = "done"
  /\ \E f \in FileIds :
       /\ SeenDists(f) = <<distance, distance, 150>>
       /\ Distances(results[f]) = <<distance>>
  /\ Distances(report.within) = <<distance>>

\* -------------------------------------------------------- report shapes
AllResults == UNION {Range(analysis_results[f]) : f \in FileIds}

\* C9: with results but none within the threshold the report is the single
\* nearest result of all files, as the closest point; with no result it is
\* "no points"; otherwise it is the list within the threshold: one shape.
ReportShapes ==
  phase = "done" =>
    /\ report.shape \in {"within", "closest", "none"}
    /\ report.shape = "within" <=> \E r \in AllResults : IsNear(r)
    /\ report.shape = "closest" <=>
         (AllResults # {} /\ \A r \in AllResults : ~IsNear(r))
    /\ report.shape = "none" <=> AllResults = {}
    /\ report.shape = "closest" =>
         /\ report.within = <<>> /\ report.outside = <<>>
         /\ Len(report.closest) = 1
         /\ report.closest[1] \in AllResults
         /\ \A r \in AllResults : report.closest[1].distance <= r.distance
    /\ report.shape = "none" =>
         report.within = <<>> /\ report.outside = <<>> /\ report.closest = <<>>
    /\ report.shape = "within" => report.within # <<>> /\ report.closest = <<>>

\* two files without a zone: the nearer miss, of the second file, is reported
ReportShapesWitness ==
  /\ phase = "done"
  /\ Len(main_results) = 2
  /\ report.shape = "closest"
  /\ report.closest[1].path = 2
  /\ report.closest[1].distance < main_results[2].distance

\* ----------------------------------------------------------- determinism
FileState(f) ==
  <<pc[f], pos[f], results[f], new_results[f], nearest[f], time_update[f],
    in_time[f], searching_time_for[f], last_point[f], analysis_results[f]>>

\* C10: the second invocation prints the report of the first, whatever the
\* schedules; a step of one file's analysis changes no state of another
\* file's analysis; and the flatten/sort/partition stage runs only when
\* every analysis has returned.
Repeatable ==
  [][ /\ (run' = 2 /\ phase' = "done") => report' = prev_report'
      /\ phase' # "analyze" => \A f \in FileIds : pc'[f] = "done"
      /\ run' = run =>
           \A f, g \in FileIds :
             (f # g /\ FileState(f)' # FileState(f)) => FileState(g)' = FileState(g)
    ]_vars

\* the second report is out; it holds two results at the same distance
\* that come from different files
RepeatableWitness ==
  /\ run = 2
  /\ phase = "done"
  /\ \E k \in 1..(Len(report.within) - 1) :
       /\ report.within[k].distance = report.within[k + 1].distance
       /\ report.within[k].path # report.within[k + 1].path

\* ----------------------------------------------------------------- faults
Panicked(f) == pc[f] = "panicked"

\* C11: a path that cannot be opened is skipped: as long as no analysis of
\* a file that opens has failed the run is not aborted, and the report, once
\* printed, is made of the results of every file that opens.
UnreadableFileSkipped ==
  (\A f \in FileIds : Panicked(f) => ~readable[f]) =>
    /\ phase # "aborted"
    /\ phase = "done" =>
         /\ \A f \in FileIds : readable[f] => Done(f)
         /\ \A f \in FileIds :
              readable[f] => \A r \in Range(analysis_results[f]) : r \in Range(main_results)

\* ------------------------------------------------- the distance of a point
\* main.rs:129-135 on the positions of the track points of one file.  A
\* position is a pair of whole degrees; an f64 length is kept in thousandths
\* (of a meter or of a degree), rounded down.
MaxPoints == 2

\* opt.longitude and opt.latitude, the reference point
lon == 0
lat == 0

Coords == -2..2

GridPoints == [x : Coords, y : Coords]

Reference == [x |-> lon, y |-> lat]

Abs(n) == IF n < 0 THEN -n ELSE n

Sq(n) == n * n

\* the largest k in lo..hi with k * k <= v
RECURSIVE ISqrtIn(_, _, _)
ISqrtIn(v, lo, hi) ==
  IF lo = hi THEN lo
  ELSE LET mid == (lo + hi + 1) \div 2
       IN IF mid * mid <= v THEN ISqrtIn(v, mid, hi) ELSE ISqrtIn(v, lo, mid - 1)

\* f64::sqrt of num / den, in thousandths
MilliRoot(num, den) == ISqrtIn((1000000 * num) \div den, 0, 46340)

\* Point::haversine_distance from the reference: the great-circle distance
\* on a sphere of radius 6371008.8 m, in thousandths of a meter
HaversineDistance(pt) ==
  LET ax == Abs(pt.x - lon)
      ay == Abs(pt.y - lat)
  IN CASE <<ax, ay>> = <<0, 0>> -> 0
       [] <<ax, ay>> \in {<<0, 1>>, <<1, 0>>} -> 111195080
       [] <<ax, ay>> \in {<<0, 2>>, <<2, 0>>} -> 222390160
       [] <<ax, ay>> = <<1, 1>> -> 157249598
       [] <<ax, ay>> \in {<<1, 2>>, <<2, 1>>} -> 248629658
       [] <<ax, ay>> = <<2, 2>> -> 314475239

\* Point::euclidean_distance(&Point): planar, in the unit of the coordinates
\* (thousandths of a degree)
PointDistance(a, b) == MilliRoot(Sq(a.x - b.x) + Sq(a.y - b.y), 1)

\* the segment distance falling back to the end of the segment on both sides
LineSegmentDistanceToEnd(point, start, end) ==
  IF start = end THEN PointDistance(point, start)
  ELSE LET dx == end.x - start.x
           dy == end.y - start.y
           den == Sq(dx) + Sq(dy)
           r == (point.x - start.x) * dx + (point.y - start.y) * dy
           s == (start.y - point.y) * dx - (start.x - point.x) * dy
       IN IF r <= 0 \/ r >= den THEN PointDistance(point, end)
          ELSE MilliRoot(Sq(s), den)

\* Point::euclidean_distance(&Line), line_segment_distance of the geo crate:
\* r and s are kept as numerators over den = dx^2 + dy^2, and
\* s.abs() * dx.hypot(dy) is the root of s^2 / den
LineSegmentDistance(point, start, end) ==
  IF start = end THEN PointDistance(point, start)
  ELSE LET dx == end.x - start.x
           dy == end.y - start.y
           den == Sq(dx) + Sq(dy)
           r == (point.x - start.x) * dx + (point.y - start.y) * dy
           s == (start.y - point.y) * dx - (start.x - point.x) * dy
       IN IF r <= 0 THEN PointDistance(point, start)
          ELSE IF r >= den THEN PointDistance(point, end)
          ELSE MilliRoot(Sq(s), den)

\* main.rs:129-135
DistOf(lp, pt) ==
  IF lp # <<>> THEN LineSegmentDistance(Reference, lp[1], pt)
  ELSE HaversineDistance(pt)

\* main.rs:46-164 for one accepted track point, as far as dist and last_point
GeoStep ==
  /\ geo_pos < Len(geo_points)
  /\ LET pt == geo_points[geo_pos + 1]
     IN /\ geo_dist' = <<DistOf(geo_last_point, pt)>>
        /\ geo_last_point' = <<pt>>
  /\ geo_pos' = geo_pos + 1
  /\ UNCHANGED <<geo_points, files, reader, readable, avars, mvars, run, prev_report>>

\* one file of up to MaxPoints track points, all with coordinates that parse
InitGeo ==
  /\ files = <<>>
  /\ readable = <<>>
  /\ InitState
  /\ geo_points \in DocsOver(GridPoints, MaxPoints)
  /\ geo_pos = 0
  /\ geo_last_point = <<>>
  /\ geo_dist = <<>>

NextGeo == GeoStep

SpecGeo == InitGeo /\ [][NextGeo]_vars

\* the point processed last and the point before it
CurrentPoint == geo_points[geo_pos]

PreviousPoint == geo_points[geo_pos - 1]

\* the length of one degree on the sphere, in meters
MetersPerDegree == 111195

\* the planar distance from the reference to the point, or to the segment
\* that ends in it, in thousandths of a degree
PlanarDistance ==
  IF geo_pos > 1 THEN LineSegmentDistance(Reference, PreviousPoint, CurrentPoint)
  ELSE PointDistance(Reference, CurrentPoint)

\* d, in thousandths, is the length of deg thousandths of a degree in
\* meters, up to one part in a hundred and the rounding of deg
IsMetersOf(d, deg) ==
  Abs(d - deg * MetersPerDegree) <= (deg * MetersPerDegree) \div 100 + MetersPerDegree

\* C12: the distance computed for a track point, the first of the file or a
\* later one, is not negative and is the length in meters of the way from
\* the reference to the point or to the segment that ends in it.
DistanceInMeters ==
  geo_pos > 0 => /\ geo_dist[1] >= 0
                 /\ IsMetersOf(geo_dist[1], PlanarDistance)

\* ---------------------------------------------------- the segment distance
\* the sign-change test: the reference lies between the projections of the
\* two ends of the segment on its direction
ProjectionBetween(prev, p) ==
  /\ prev # p
  /\ LET a == (prev.x - lon) * (p.x - prev.x) + (prev.y - lat) * (p.y - prev.y)
         b == (p.x - lon) * (p.x - prev.x) + (p.y - lat) * (p.y - prev.y)
     IN a * b <= 0

\* the distance from the reference to its foot on the line through prev and
\* p: by Pythagoras, from the distance to prev and the projection on the line
PerpendicularDistance(prev, p) ==
  LET len2 == Sq(p.x - prev.x) + Sq(p.y - prev.y)
      a == (prev.x - lon) * (p.x - prev.x) + (prev.y - lat) * (p.y - prev.y)
      d2 == Sq(prev.x - lon) + Sq(prev.y - lat)
  IN MilliRoot(d2 * len2 - Sq(a), len2)

MinOf(a, b) == IF a <= b THEN a ELSE b

\* C13, as stated: the distance of a point with a previous point is the
\* perpendicular distance to the line through both when the projection of
\* the reference falls between them, and the distance to the point itself
\* otherwise.
SegmentDistanceAsStated ==
  geo_pos > 1 =>
    geo_dist[1] = IF ProjectionBetween(PreviousPoint, CurrentPoint)
                  THEN PerpendicularDistance(PreviousPoint, CurrentPoint)
                  ELSE PointDistance(Reference, CurrentPoint)

\* C13, amended: otherwise it is the distance to the nearer of the two, the
\* previous point or the point itself.
SegmentDistanceAmended ==
  geo_pos > 1 =>
    geo_dist[1] = IF ProjectionBetween(PreviousPoint, CurrentPoint)
                  THEN PerpendicularDistance(PreviousPoint, CurrentPoint)
                  ELSE MinOf(PointDistance(Reference, PreviousPoint),
                             PointDistance(Reference, CurrentPoint))

\* the projection falls before the previous point, which is the nearer one:
\* the distance of the point is the distance to the previous point
SegmentDistanceWitness ==
  /\ geo_pos = 2
  /\ ~ProjectionBetween(PreviousPoint, CurrentPoint)
  /\ PointDistance(Reference, PreviousPoint) < PointDistance(Reference, CurrentPoint)
  /\ geo_dist = <<PointDistance(Reference, PreviousPoint)>>

\* ------------------------------------------------------- skipped points
\* the tracker state of a file a skipped point must leave alone
TrackerState(f) == <<results[f], new_results[f], nearest[f], last_point[f]>>

SkipsPoint(f) ==
  /\ pc[f] = "running"
  /\ Cur(f).type = "Start" /\ Cur(f).name = "trkpt" /\ ~Cur(f).ok
  /\ pos'[f] = pos[f] + 1

\* C14: the start of a track point with a coordinate that does not parse
\* changes neither the open zone nor the closed results nor the miss nor
\* the previous point, and no result analyze returns carries the time text
\* of such a point.
SkippedPointOnlyLost ==
  [][ \A f \in FileIds :
        /\ SkipsPoint(f) => TrackerState(f)' = TrackerState(f)
        /\ Done(f)' =>
             \A k \in DOMAIN analysis_results'[f] :
               LET t == analysis_results'[f][k].time
               IN t # <<>> => files[f][t[1]].kind # "bad"
    ]_vars

\* C15: a track point with a coordinate that parses to NaN or an infinity is
\* skipped: it never becomes the previous point, and the results of the file
\* are those of its other track points, as if it were absent.
NonFiniteSkipped ==
  \A f \in FileIds :
    /\ ~PreviousIsNaN(f)
    /\ Done(f) => Distances(analysis_results[f]) = FileDistances(files[f])

\* C16: no fault inside a file that opens ends its analysis other than by
\* the return at the end of the stream.
FaultsAbsorbed == \A f \in FileIds : readable[f] => ~Panicked(f)

\* ------------------------------------------------------- malformed tokens
\* what analyze keeps between two events of a file
LoopState(f) ==
  <<results[f], new_results[f], nearest[f], last_point[f], in_time[f],
    time_update[f], searching_time_for[f]>>

\* C17: reading a malformed token moves analyze to the next event and
\* changes nothing else of its state, the open zone included; analyze
\* returns on no event but the end of the stream.
MalformedTokenSkipped ==
  [][ \A f \in FileIds :
        /\ Reading(f, "Err") /\ FileState(f)' # FileState(f) =>
             /\ pos'[f] = pos[f] + 1
             /\ pc'[f] = "running"
             /\ LoopState(f)' = LoopState(f)
             /\ analysis_results'[f] = analysis_results[f]
        /\ ~Done(f) /\ Done(f)' => Cur(f).type = "Eof"
    ]_vars

\* a malformed token has just been read while a zone is open and a miss is
\* held; both are still there
MalformedTokenWitness ==
  \E f \in FileIds :
    /\ pc[f] = "running"
    /\ pos[f] > 0
    /\ reader[f][pos[f]].type = "Err"
    /\ new_results[f] # <<>>
    /\ nearest[f] # <<>>

\* ------------------------------------------------- the shape of the lists
\* the files with accepted points none of which is within the threshold
ZoneLess == {f \in FileIds : Misses(files[f]) # {} /\ Runs(files[f]) = <<>>}

ZoneLessMisses ==
  UNION {{files[f][i].dist : i \in Misses(files[f])} : f \in ZoneLess}

Reported == report.outside \o report.closest

\* C18: a vector analyze returns is empty, or holds only results within the
\* threshold, or is one result beyond it; a merged result beyond the
\* threshold comes from a file no accepted point of which is within it, and
\* the result reported as nearest outside or as closest, when beyond the
\* threshold, is the least miss of those files.
ResultListShapes ==
  /\ \A f \in FileIds :
       Done(f) =>
         LET out == analysis_results[f]
         IN \/ out = <<>>
            \/ \A k \in DOMAIN out : out[k].distance <= distance
            \/ Len(out) = 1 /\ out[1].distance > distance
  /\ \A k \in DOMAIN main_results :
       main_results[k].distance > distance => main_results[k].path \in ZoneLess
  /\ phase = "done" =>
       \A k \in DOMAIN Reported :
         Reported[k].distance > distance =>
           /\ Reported[k].path \in ZoneLess
           /\ Reported[k].distance = MinOver(ZoneLessMisses)

\* the miss of the second file, which has no zone, is reported as nearest
\* outside; the first file has a zone and a nearer miss, which is not
ResultListShapesWitness ==
  /\ phase = "done"
  /\ report.outside # <<>>
  /\ report.outside[1].path = 2
  /\ report.outside[1].distance > distance
  /\ \E i \in Misses(files[1]) : files[1][i].dist < report.outside[1].distance

\* ------------------------------------------------- the open zone, the miss
\* the distance of the track point accepted last among the first n events
RECURSIVE LastAcceptedUpTo(_, _)
LastAcceptedUpTo(evs, n) ==
  IF n = 0 THEN <<>>
  ELSE IF evs[n].type = "Start" /\ evs[n].name = "trkpt" /\ evs[n].ok
       THEN <<evs[n].dist>>
       ELSE LastAcceptedUpTo(evs, n - 1)

LastAccepted(f) == LastAcceptedUpTo(reader[f], pos[f])

OpenZoneShape(f) ==
  /\ LET last == LastAccepted(f)
     IN new_results[f] # <<>> <=> (last # <<>> /\ last[1] <= distance)
  /\ \A k \in DOMAIN new_results[f] : new_results[f][k].distance <= distance
  /\ nearest[f] # <<>> => nearest[f][1].distance > distance
  /\ HasSlot(new_results[f], searching_time_for[f]) =>
       searching_time_for[f] = Len(new_results[f]) - 1

\* the track point being read becomes the miss
MarksMiss(f) ==
  /\ Reading(f, "Start")
  /\ Cur(f).name = "trkpt" /\ Cur(f).ok
  /\ pos'[f] = pos[f] + 1
  /\ time_update'[f]
  /\ nearest'[f] # nearest[f]

\* C19: after every event the open zone is non-empty exactly if the track
\* point accepted last is within the threshold, its members are within the
\* threshold and the miss is beyond it; a time text is written to the zone
\* or to the miss, never to both, and the point that becomes the miss leaves
\* no zone slot for its time text.
ZoneAndMissApart ==
  [][ \A f \in FileIds :
        /\ FileState(f)' # FileState(f) => OpenZoneShape(f)'
        /\ Reading(f, "Text") =>
             ~(new_results'[f] # new_results[f] /\ nearest'[f] # nearest[f])
        /\ MarksMiss(f) => ~HasSlot(new_results'[f], searching_time_for'[f])
    ]_vars

\* a zone was closed by the point that became the miss, and the time text
\* of that point has just been written to the miss
ZoneAndMissApartWitness ==
  \E f \in FileIds :
    /\ pc[f] = "running"
    /\ pos[f] > 0
    /\ reader[f][pos[f]].type = "Text"
    /\ results[f] # <<>>
    /\ new_results[f] = <<>>
    /\ nearest[f] # <<>>
    /\ nearest[f][1].time # <<>>

====
